---- MODULE Spec2Model ----
(***************************************************************************)
(* Pesten card game (src/script.js): the Game controller, its Deck and its *)
(* four Players, driven by the three event sources of the page: a click on *)
(* a card of the human hand, a click on the deck, and the firing of a      *)
(* deferred AI turn (setTimeout).  JavaScript runs one handler at a time,  *)
(* so every handler is one atomic action.                                  *)
(***************************************************************************)
EXTENDS Integers, Sequences, FiniteSets, TLC

VARIABLES
    deck,               \* Deck.cards: sequence of cards, drawn from the end
    hands,              \* players[i].hand, i in 0..3
    discardPile,        \* Game.discardPile, top card last
    currentPlayerIndex, \* Game.currentPlayerIndex
    direction,          \* Game.direction
    gameOver,           \* Game.gameOver
    winner,             \* seat named in ui.winnerText, -1 while the overlay is hidden
    timers,             \* pending setTimeout(playAiTurn): per seat that was current
                        \* when the timer was set, how many are pending
    last,               \* the handler that ran last, its arguments and its outcome;
                        \* timer is the seat a fired timer was set for
    budget              \* what is left of the explored run: handler runs and human plays

vars == <<deck, hands, discardPile, currentPlayerIndex, direction, gameOver,
          winner, timers, last, budget>>

(***************************************************************************)
(* Bounds of the exploration.                                              *)
(***************************************************************************)
\* Math.random() takes the values k / RandLevels, k in 0..RandLevels-1
RandLevels == 2
\* state-changing handler runs explored after a short-game shuffle
ShortOps == 9
\* cards the human may play after a short-game shuffle
ShortPlays == 7
\* state-changing handler runs explored after the deck-draining shuffle
LongOps == 22
\* cards the human may play after the deck-draining shuffle
LongPlays == 0
\* cards in a hand when handlePassCardRule is called on its own
PassLen == 2
\* calls of handlePassCardRule in a row
PassCalls == 2

(***************************************************************************)
(* Cards and the deck.                                                     *)
(***************************************************************************)
Seats == 0..3

Card(suit, value) == [suit |-> suit, value |-> value]

\* JavaScript's undefined: what Array.pop() and hand[index] give when there
\* is no element
Undefined == [suit |-> "undefined", value |-> "undefined"]

SUITS == <<"H", "S", "R", "K">>

VALUES == <<"2", "3", "4", "5", "6", "7", "8", "9", "10", "J", "Q", "K", "A">>

\* Deck.reset(): suits outer, values inner, then the two jokers
DeckReset ==
    [n \in 1..52 |-> Card(SUITS[((n - 1) \div 13) + 1], VALUES[((n - 1) % 13) + 1])]
        \o <<Card("J", "X"), Card("J", "X")>>

\* Math.floor(Math.random() * n) for Math.random() = k / RandLevels
RandomInt(k, n) == (k * n) \div RandLevels

RandomOutcomes == 0..(RandLevels - 1)

\* [cards[i], cards[j]] = [cards[j], cards[i]], i and j counted from 0
Swap(cards, i, j) ==
    [cards EXCEPT ![i + 1] = cards[j + 1], ![j + 1] = cards[i + 1]]

RECURSIVE ShuffleFrom(_, _, _)
\* the loop of Deck.shuffle() from index i down to 1; J[i] is the value of
\* Math.floor(Math.random() * (i + 1)) in the iteration for i
ShuffleFrom(cards, i, J) ==
    IF i <= 0 THEN cards ELSE ShuffleFrom(Swap(cards, i, J[i]), i - 1, J)

\* Deck.shuffle()
Shuffle(cards, J) == ShuffleFrom(cards, Len(cards) - 1, J)

\* the indices a shuffle of n cards picks when Math.random() is k / RandLevels
\* at every call
ConstantRandom(k, n) == [i \in 1..(n - 1) |-> RandomInt(k, i + 1)]

\* Deck.draw(): the card Array.pop() returns
DeckDraw(cards) == IF Len(cards) = 0 THEN Undefined ELSE cards[Len(cards)]

\* Deck.draw(): what Array.pop() leaves
DeckAfterDraw(cards) == IF Len(cards) = 0 THEN cards ELSE SubSeq(cards, 1, Len(cards) - 1)

(***************************************************************************)
(* Player.                                                                 *)
(***************************************************************************)
\* Player.receiveCard(card)
ReceiveCard(hand, card) == IF card = Undefined THEN hand ELSE Append(hand, card)

\* hand[index]
HandAt(hand, index) ==
    IF index >= 0 /\ index < Len(hand) THEN hand[index + 1] ELSE Undefined

\* the start position Array.splice(index, 1) uses
SpliceStart(len, index) ==
    IF index < 0 THEN (IF len + index < 0 THEN 0 ELSE len + index)
    ELSE (IF index > len THEN len ELSE index)

\* Player.playCard(index): the hand after splice(index, 1)
PlayCard(hand, index) ==
    LET s == SpliceStart(Len(hand), index)
    IN  IF s >= Len(hand) THEN hand
        ELSE SubSeq(hand, 1, s) \o SubSeq(hand, s + 2, Len(hand))

\* Player.removeOneRandomCard(): the index it removes, Math.random() = k / RandLevels
RemoveIndex(hand, k) == RandomInt(k, Len(hand))

(***************************************************************************)
(* Game: the controller's fields as one record, and its methods as         *)
(* operators from record to record.  scheduled counts the setTimeout calls *)
(* of the running handler, recycled the recycleDeck calls that moved the   *)
(* discard pile, result is what handleCardPlay returned (or threw).  turns *)
(* lists the nextTurn calls of the running handler that found the game not *)
(* over, recycles the recycleDeck calls, each with the fields it read and  *)
(* the fields it left.                                                     *)
(***************************************************************************)
Game ==
    [deck |-> deck, hands |-> hands, discardPile |-> discardPile,
     currentPlayerIndex |-> currentPlayerIndex, direction |-> direction,
     gameOver |-> gameOver, winner |-> winner, timers |-> timers,
     scheduled |-> 0, recycled |-> 0, result |-> "undefined",
     turns |-> <<>>, recycles |-> <<>>]

\* Game.getTopCard()
GetTopCard(pile) == IF Len(pile) = 0 THEN Undefined ELSE pile[Len(pile)]

\* the wrap-around of nextTurn and advancePointer
Wrap(index) == IF index >= 4 THEN 0 ELSE IF index < 0 THEN 3 ELSE index

\* setTimeout(() => this.playAiTurn(), ...)
SetTimeout(g) ==
    [g EXCEPT !.timers[g.currentPlayerIndex] = @ + 1, !.scheduled = @ + 1]

\* Game.handleWin(winnerIndex)
HandleWin(g, winnerIndex) == [g EXCEPT !.gameOver = TRUE, !.winner = winnerIndex]

\* Game.advancePointer()
AdvancePointer(g) ==
    [g EXCEPT !.currentPlayerIndex = Wrap(g.currentPlayerIndex + g.direction)]

\* nextTurn that always steps to the next higher seat, whatever the direction
NextTurnIgnoresDirection(g) ==
    IF g.gameOver THEN g
    ELSE IF Len(g.hands[g.currentPlayerIndex]) = 0
         THEN [HandleWin(g, g.currentPlayerIndex) EXCEPT
                  !.turns = Append(@, [from |-> g.currentPlayerIndex,
                                       direction |-> g.direction,
                                       to |-> g.currentPlayerIndex, won |-> TRUE])]
         ELSE LET g1 == [g EXCEPT !.currentPlayerIndex =
                                      Wrap(g.currentPlayerIndex + 1),
                                  !.turns = Append(@, [from |-> g.currentPlayerIndex,
                                       direction |-> g.direction,
                                       to |-> Wrap(g.currentPlayerIndex + 1),
                                       won |-> FALSE])]
              IN  IF g1.currentPlayerIndex # 0 THEN SetTimeout(g1) ELSE g1

\* nextTurn that schedules no AI turn
NextTurnSchedulesNothing(g) ==
    IF g.gameOver THEN g
    ELSE IF Len(g.hands[g.currentPlayerIndex]) = 0
         THEN [HandleWin(g, g.currentPlayerIndex) EXCEPT
                  !.turns = Append(@, [from |-> g.currentPlayerIndex,
                                       direction |-> g.direction,
                                       to |-> g.currentPlayerIndex, won |-> TRUE])]
         ELSE [g EXCEPT !.currentPlayerIndex = Wrap(g.currentPlayerIndex + g.direction),
                        !.turns = Append(@, [from |-> g.currentPlayerIndex,
                                       direction |-> g.direction,
                                       to |-> Wrap(g.currentPlayerIndex + g.direction),
                                       won |-> FALSE])]

\* Game.nextTurn()
NextTurn(g) ==
    IF g.gameOver THEN g
    ELSE IF Len(g.hands[g.currentPlayerIndex]) = 0
         THEN [HandleWin(g, g.currentPlayerIndex) EXCEPT
                  !.turns = Append(@, [from |-> g.currentPlayerIndex,
                                       direction |-> g.direction,
                                       to |-> g.currentPlayerIndex, won |-> TRUE])]
         ELSE LET g1 == [g EXCEPT !.currentPlayerIndex =
                                      Wrap(g.currentPlayerIndex + g.direction),
                                  !.turns = Append(@, [from |-> g.currentPlayerIndex,
                                       direction |-> g.direction,
                                       to |-> Wrap(g.currentPlayerIndex + g.direction),
                                       won |-> FALSE])]
              IN  IF g1.currentPlayerIndex # 0 THEN SetTimeout(g1) ELSE g1

\* isValidMove without the suit match
IsValidMoveValueOnly(top, card) ==
    IF top.value = "X" \/ top.value = "J" THEN TRUE
    ELSE IF card.value = "X" \/ card.value = "J" THEN TRUE
    ELSE IF card.value = top.value THEN TRUE
    ELSE FALSE

\* Game.isValidMove(card), with the top card it reads
IsValidMove(top, card) ==
    IF top.value = "X" \/ top.value = "J" THEN TRUE
    ELSE IF card.value = "X" \/ card.value = "J" THEN TRUE
    ELSE IF card.value = top.value THEN TRUE
    ELSE IF card.suit = top.suit THEN TRUE
    ELSE FALSE

\* isValidMove(card) throws a TypeError: it reads top.value of an undefined
\* top, or card.value of an undefined card once the top is no Joker or Jack
IsValidMoveThrows(top, card) ==
    \/ top = Undefined
    \/ (top.value # "X" /\ top.value # "J" /\ card = Undefined)

\* recycleDeck that hands the whole pile, top card included, to the deck
RecycleDeckKeepsTopTwice(g, k) ==
    IF Len(g.discardPile) <= 1
    THEN [g EXCEPT !.recycles = Append(@, [deck |-> g.deck, discardPile |-> g.discardPile,
                                           deckAfter |-> g.deck,
                                           discardPileAfter |-> g.discardPile])]
    ELSE LET top == g.discardPile[Len(g.discardPile)]
             added == g.deck \o g.discardPile
         IN  [g EXCEPT !.discardPile = <<top>>,
                       !.deck = Shuffle(added, ConstantRandom(k, Len(added))),
                       !.recycled = @ + 1,
                       !.recycles = Append(@, [deck |-> g.deck, discardPile |-> g.discardPile,
                                               deckAfter |-> Shuffle(added, ConstantRandom(k, Len(added))),
                                               discardPileAfter |-> <<top>>])]

\* recycleDeck that moves the whole pile, its top card included, to the deck
RecycleDeckTakesAll(g, k) ==
    IF Len(g.discardPile) <= 1
    THEN [g EXCEPT !.recycles = Append(@, [deck |-> g.deck, discardPile |-> g.discardPile,
                                           deckAfter |-> g.deck,
                                           discardPileAfter |-> g.discardPile])]
    ELSE LET added == g.deck \o g.discardPile
         IN  [g EXCEPT !.discardPile = <<>>,
                       !.deck = Shuffle(added, ConstantRandom(k, Len(added))),
                       !.recycled = @ + 1,
                       !.recycles = Append(@, [deck |-> g.deck, discardPile |-> g.discardPile,
                                               deckAfter |-> Shuffle(added, ConstantRandom(k, Len(added))),
                                               discardPileAfter |-> <<>>])]

\* recycleDeck that keeps the bottom card of the pile instead of its top card
RecycleDeckKeepsBottom(g, k) ==
    IF Len(g.discardPile) <= 1
    THEN [g EXCEPT !.recycles = Append(@, [deck |-> g.deck, discardPile |-> g.discardPile,
                                           deckAfter |-> g.deck,
                                           discardPileAfter |-> g.discardPile])]
    ELSE LET bottom == g.discardPile[1]
             oldCards == SubSeq(g.discardPile, 2, Len(g.discardPile))
             added == g.deck \o oldCards
         IN  [g EXCEPT !.discardPile = <<bottom>>,
                       !.deck = Shuffle(added, ConstantRandom(k, Len(added))),
                       !.recycled = @ + 1,
                       !.recycles = Append(@, [deck |-> g.deck, discardPile |-> g.discardPile,
                                               deckAfter |-> Shuffle(added, ConstantRandom(k, Len(added))),
                                               discardPileAfter |-> <<bottom>>])]

\* Game.recycleDeck(); the shuffle's Math.random() is k / RandLevels
RecycleDeck(g, k) ==
    IF Len(g.discardPile) <= 1
    THEN [g EXCEPT !.recycles = Append(@, [deck |-> g.deck, discardPile |-> g.discardPile,
                                           deckAfter |-> g.deck,
                                           discardPileAfter |-> g.discardPile])]
    ELSE LET top == g.discardPile[Len(g.discardPile)]
             oldCards == SubSeq(g.discardPile, 1, Len(g.discardPile) - 1)
             added == g.deck \o oldCards
         IN  [g EXCEPT !.discardPile = <<top>>,
                       !.deck = Shuffle(added, ConstantRandom(k, Len(added))),
                       !.recycled = @ + 1,
                       !.recycles = Append(@, [deck |-> g.deck, discardPile |-> g.discardPile,
                                               deckAfter |-> Shuffle(added, ConstantRandom(k, Len(added))),
                                               discardPileAfter |-> <<top>>])]

\* this.players[p].receiveCard(this.deck.draw())
DrawInto(g, p) ==
    [g EXCEPT !.hands[p] = ReceiveCard(@, DeckDraw(g.deck)),
              !.deck = DeckAfterDraw(@)]

RECURSIVE ForceDrawLoop(_, _, _, _)
\* the loop of forceDraw with n iterations left
ForceDrawLoop(g, victimIndex, n, k) ==
    IF n = 0 THEN g
    ELSE LET g1 == IF Len(g.deck) = 0 THEN RecycleDeck(g, k) ELSE g
         IN  ForceDrawLoop(DrawInto(g1, victimIndex), victimIndex, n - 1, k)

\* Game.forceDraw(amount)
ForceDraw(g, amount, k) == ForceDrawLoop(g, g.currentPlayerIndex, amount, k)

\* handlePassCardRule that hands each card to the seat against the direction
HandlePassCardRuleAgainstDirection(g, k) ==
    LET passedCards == [p \in Seats |->
                          IF Len(g.hands[p]) = 0 THEN Undefined
                          ELSE HandAt(g.hands[p], RemoveIndex(g.hands[p], k))]
        removed == [p \in Seats |->
                      IF Len(g.hands[p]) = 0 THEN g.hands[p]
                      ELSE PlayCard(g.hands[p], RemoveIndex(g.hands[p], k))]
        giver(p) == CHOOSE i \in Seats : Wrap(i - g.direction) = p
    IN  [g EXCEPT !.hands = [p \in Seats |-> ReceiveCard(removed[p], passedCards[giver(p)])]]

\* Game.handlePassCardRule(); k / RandLevels is Math.random() in
\* removeOneRandomCard()
HandlePassCardRule(g, k) ==
    LET passedCards == [p \in Seats |->
                          IF Len(g.hands[p]) = 0 THEN Undefined
                          ELSE HandAt(g.hands[p], RemoveIndex(g.hands[p], k))]
        removed == [p \in Seats |->
                      IF Len(g.hands[p]) = 0 THEN g.hands[p]
                      ELSE PlayCard(g.hands[p], RemoveIndex(g.hands[p], k))]
        \* the one i whose nextIndex is p
        giver(p) == CHOOSE i \in Seats : Wrap(i + g.direction) = p
    IN  [g EXCEPT !.hands = [p \in Seats |-> ReceiveCard(removed[p], passedCards[giver(p)])]]

\* Game.executeDraw(playerIndex)
ExecuteDraw(g, playerIndex, k) ==
    LET g1 == IF Len(g.deck) = 0 THEN RecycleDeck(g, k) ELSE g
    IN  NextTurn(DrawInto(g1, playerIndex))

\* Game.handleDrawCard()
HandleDrawCard(g, k) ==
    IF g.currentPlayerIndex # 0 THEN g ELSE ExecuteDraw(g, g.currentPlayerIndex, k)

\* the switch without the advancePointer of case '8'
CardEffectEightSkipsNobody(g, playerIndex, card, rnd) ==
    CASE card.value = "2" -> NextTurn(ForceDraw(AdvancePointer(g), 2, rnd))
      [] card.value = "X" -> NextTurn(ForceDraw(AdvancePointer(g), 5, rnd))
      [] card.value = "8" -> NextTurn(g)
      [] card.value = "A" -> NextTurn([g EXCEPT !.direction = -g.direction])
      [] card.value = "10" -> NextTurn(HandlePassCardRule(g, rnd))
      [] card.value = "K" -> IF playerIndex # 0 THEN SetTimeout(g) ELSE g
      [] OTHER -> NextTurn(g)

\* the switch with case 'A' that leaves the direction as it is
CardEffectAceKeepsDirection(g, playerIndex, card, rnd) ==
    CASE card.value = "2" -> NextTurn(ForceDraw(AdvancePointer(g), 2, rnd))
      [] card.value = "X" -> NextTurn(ForceDraw(AdvancePointer(g), 5, rnd))
      [] card.value = "8" -> NextTurn(AdvancePointer(g))
      [] card.value = "A" -> NextTurn(g)
      [] card.value = "10" -> NextTurn(HandlePassCardRule(g, rnd))
      [] card.value = "K" -> IF playerIndex # 0 THEN SetTimeout(g) ELSE g
      [] OTHER -> NextTurn(g)

\* the switch with case 'K' falling through to nextTurn
CardEffectKingEndsTurn(g, playerIndex, card, rnd) ==
    CASE card.value = "2" -> NextTurn(ForceDraw(AdvancePointer(g), 2, rnd))
      [] card.value = "X" -> NextTurn(ForceDraw(AdvancePointer(g), 5, rnd))
      [] card.value = "8" -> NextTurn(AdvancePointer(g))
      [] card.value = "A" -> NextTurn([g EXCEPT !.direction = -g.direction])
      [] card.value = "10" -> NextTurn(HandlePassCardRule(g, rnd))
      [] OTHER -> NextTurn(g)

\* the switch of handleCardPlay on card.value, and what follows it
CardEffect(g, playerIndex, card, rnd) ==
    CASE card.value = "2" -> NextTurn(ForceDraw(AdvancePointer(g), 2, rnd))
      [] card.value = "X" -> NextTurn(ForceDraw(AdvancePointer(g), 5, rnd))
      [] card.value = "8" -> NextTurn(AdvancePointer(g))
      [] card.value = "A" -> NextTurn([g EXCEPT !.direction = -g.direction])
      [] card.value = "10" -> NextTurn(HandlePassCardRule(g, rnd))
      [] card.value = "K" -> IF playerIndex # 0 THEN SetTimeout(g) ELSE g
      [] OTHER -> NextTurn(g)

\* handleCardPlay without the isValidMove check
HandleCardPlayUnchecked(g, playerIndex, cardIndex, rnd) ==
    IF g.gameOver THEN [g EXCEPT !.result = "undefined"]
    ELSE
    LET card == HandAt(g.hands[playerIndex], cardIndex)
        g1 == [g EXCEPT !.hands[playerIndex] = PlayCard(@, cardIndex),
                        !.discardPile = Append(@, card)]
    IN  IF Len(g1.hands[playerIndex]) = 0
        THEN [HandleWin(g1, playerIndex) EXCEPT !.result = "true"]
        ELSE [CardEffect(g1, playerIndex, card, rnd) EXCEPT !.result = "true"]

\* handleCardPlay with the win check after the switch instead of before it
HandleCardPlayEffectFirst(g, playerIndex, cardIndex, rnd) ==
    IF g.gameOver THEN [g EXCEPT !.result = "undefined"]
    ELSE
    LET card == HandAt(g.hands[playerIndex], cardIndex)
        top == GetTopCard(g.discardPile)
    IN  IF IsValidMoveThrows(top, card) THEN [g EXCEPT !.result = "throw"]
        ELSE IF ~IsValidMove(top, card) THEN [g EXCEPT !.result = "false"]
        ELSE
        LET g1 == [g EXCEPT !.hands[playerIndex] = PlayCard(@, cardIndex),
                            !.discardPile = Append(@, card)]
            g2 == CardEffect(g1, playerIndex, card, rnd)
        IN  IF card = Undefined THEN [g1 EXCEPT !.result = "throw"]
            ELSE IF Len(g2.hands[playerIndex]) = 0
                 THEN [HandleWin(g2, playerIndex) EXCEPT !.result = "true"]
                 ELSE [g2 EXCEPT !.result = "true"]

\* handleCardPlay without the win check that follows the play
HandleCardPlayNoWinCheck(g, playerIndex, cardIndex, rnd) ==
    IF g.gameOver THEN [g EXCEPT !.result = "undefined"]
    ELSE
    LET card == HandAt(g.hands[playerIndex], cardIndex)
        top == GetTopCard(g.discardPile)
    IN  IF IsValidMoveThrows(top, card) THEN [g EXCEPT !.result = "throw"]
        ELSE IF ~IsValidMove(top, card) THEN [g EXCEPT !.result = "false"]
        ELSE
        LET g1 == [g EXCEPT !.hands[playerIndex] = PlayCard(@, cardIndex),
                            !.discardPile = Append(@, card)]
        IN  IF card = Undefined
            THEN [g1 EXCEPT !.result = "throw"]
            ELSE [CardEffect(g1, playerIndex, card, rnd) EXCEPT !.result = "true"]

\* Game.handleCardPlay(playerIndex, cardIndex)
HandleCardPlay(g, playerIndex, cardIndex, rnd) ==
    IF g.gameOver THEN [g EXCEPT !.result = "undefined"]
    ELSE
    LET card == HandAt(g.hands[playerIndex], cardIndex)
        top == GetTopCard(g.discardPile)
    IN  IF IsValidMoveThrows(top, card) THEN [g EXCEPT !.result = "throw"]
        ELSE IF ~IsValidMove(top, card) THEN [g EXCEPT !.result = "false"]
        ELSE
        LET g1 == [g EXCEPT !.hands[playerIndex] = PlayCard(@, cardIndex),
                            !.discardPile = Append(@, card)]
        IN  IF Len(g1.hands[playerIndex]) = 0
            THEN [HandleWin(g1, playerIndex) EXCEPT !.result = "true"]
            ELSE IF card = Undefined
                 \* switch (card.value) throws with the card already pushed
                 THEN [g1 EXCEPT !.result = "throw"]
                 ELSE [CardEffect(g1, playerIndex, card, rnd) EXCEPT !.result = "true"]

\* ai.hand.findIndex(c => this.isValidMove(c)), -1 if there is none
ValidCardIndex(hand, top) ==
    IF \E i \in 1..Len(hand) : IsValidMove(top, hand[i])
    THEN (CHOOSE i \in 1..Len(hand) :
              /\ IsValidMove(top, hand[i])
              /\ \A j \in 1..(i - 1) : ~IsValidMove(top, hand[j])) - 1
    ELSE -1

\* Game.playAiTurn()
PlayAiTurn(g, rnd) ==
    IF g.gameOver THEN g
    ELSE
    LET ai == g.hands[g.currentPlayerIndex]
        top == GetTopCard(g.discardPile)
    IN  IF Len(ai) > 0 /\ top = Undefined THEN [g EXCEPT !.result = "throw"]
        ELSE IF ValidCardIndex(ai, top) # -1
             THEN HandleCardPlay(g, g.currentPlayerIndex, ValidCardIndex(ai, top), rnd)
             ELSE ExecuteDraw(g, g.currentPlayerIndex, rnd)

(***************************************************************************)
(* Construction: new Game() runs init().                                   *)
(***************************************************************************)
\* cards dealt to each player by init
HandSize == 7

\* Outcomes of the shuffle in init: J[i] is the value of
\* Math.floor(Math.random() * (i + 1)) in the iteration for i = 1..53.
\* ChainShuffle deals the human a hand in which each card only fits on the one
\* before it.
ChainShuffle ==
    << 1, 0, 1, 2, 0, 3, 4, 6, 8, 9, 10, 12, 13, 12, 10, 9, 8, 0, 7, 6,
       5, 4, 3, 2, 1, 18, 25, 27, 26, 27, 29, 29, 33, 25, 31, 28, 25,
       37, 24, 18, 36, 36, 18, 42, 18, 25, 45, 41, 24, 21, 25, 19, 11 >>

\* SpecialsShuffle deals the AI seats a King, an 8, an Ace and a 10 to open with.
SpecialsShuffle ==
    << 1, 1, 1, 4, 0, 4, 4, 3, 0, 0, 2, 1, 2, 4, 5, 13, 10, 9, 0, 7, 5,
       4, 3, 2, 1, 16, 14, 20, 17, 17, 30, 16, 20, 19, 29, 14, 23, 27,
       28, 23, 41, 40, 20, 20, 17, 14, 18, 6, 16, 12, 8, 11, 15 >>

\* DrainShuffle deals the AI seats the Jokers and the 2s, and cards that fit on
\* nothing that follows, so that the deck runs out.
DrainShuffle ==
    << 1, 2, 2, 4, 0, 2, 7, 0, 2, 10, 1, 9, 8, 12, 12, 12, 16, 11, 18,
       1, 20, 21, 21, 20, 1, 3, 19, 26, 2, 2, 12, 30, 32, 18, 11, 16,
       31, 17, 10, 15, 30, 26, 8, 39, 29, 13, 7, 0, 28, 27, 6, 52, 27 >>

\* what the random source gives in the explored runs: the shuffle in init, the
\* starting seat Math.floor(Math.random() * 4), and how far the run is explored
Seeds ==
    << [J |-> ChainShuffle, start |-> 0, ops |-> ShortOps, plays |-> ShortPlays],
       [J |-> SpecialsShuffle, start |-> 1, ops |-> ShortOps, plays |-> ShortPlays],
       [J |-> DrainShuffle, start |-> 1, ops |-> LongOps, plays |-> LongPlays] >>

\* the n-th card (from 0) that init draws from the shuffled deck
Drawn(shuffled, n) == shuffled[Len(shuffled) - n]

Init ==
    \E s \in 1..Len(Seeds) :
        LET shuffled == Shuffle(DeckReset, Seeds[s].J)
            dealt == 4 * HandSize
        IN  /\ hands = [p \in Seats |-> [i \in 1..HandSize |-> Drawn(shuffled, 4 * (i - 1) + p)]]
            /\ discardPile = <<Drawn(shuffled, dealt)>>
            /\ deck = SubSeq(shuffled, 1, Len(shuffled) - dealt - 1)
            /\ currentPlayerIndex = Seeds[s].start
            /\ direction = 1
            /\ gameOver = FALSE
            /\ winner = -1
            /\ timers = [p \in Seats |-> IF p = Seeds[s].start /\ p # 0 THEN 1 ELSE 0]
            /\ last = [op |-> "init", playerIndex |-> -1, cardIndex |-> -1,
                       ran |-> "none", result |-> "undefined", scheduled |-> 0,
                       recycled |-> 0, turns |-> <<>>, recycles |-> <<>>, timer |-> -1]
            /\ budget = [ops |-> Seeds[s].ops, plays |-> Seeds[s].plays]

(***************************************************************************)
(* Handlers.                                                               *)
(***************************************************************************)
\* The values of Math.random() a handler can read, the same at every call
\* within one handler: recycleDeck shuffles only when the deck runs out (one
\* handler draws at most 5 cards), removeOneRandomCard runs only for a 10.
Random(card) ==
    IF Len(deck) < 5 \/ card.value = "10" THEN RandomOutcomes ELSE {0}

\* the fields of the controller after a handler
Becomes(g) ==
    /\ deck' = g.deck
    /\ hands' = g.hands
    /\ discardPile' = g.discardPile
    /\ currentPlayerIndex' = g.currentPlayerIndex
    /\ direction' = g.direction
    /\ gameOver' = g.gameOver
    /\ winner' = g.winner
    /\ timers' = g.timers

\* the handler changed a field of the controller
Changed(g) ==
    <<g.deck, g.hands, g.discardPile, g.currentPlayerIndex, g.direction,
      g.gameOver, g.winner, g.timers>>
        # <<deck, hands, discardPile, currentPlayerIndex, direction, gameOver,
            winner, timers>>

\* The explored run: a handler run that changes the state uses up one of the
\* explored steps, and a run that changes nothing (a rejected click, a click on
\* the deck out of turn) is explored as the last event of its run, since the
\* events after it are the events of the run without it.
Spend(g, plays) ==
    /\ budget.ops > 0
    /\ budget.plays >= plays
    /\ budget' = IF Changed(g)
                 THEN [ops |-> budget.ops - 1, plays |-> budget.plays - plays]
                 ELSE [ops |-> 0, plays |-> 0]

\* cardEl.onclick = () => this.handleCardPlay(0, cIdx), for a rendered card
ClickCard ==
    \E cIdx \in 0..(Len(hands[0]) - 1) :
      \E rnd \in Random(hands[0][cIdx + 1]) :
        LET g == HandleCardPlay(Game, 0, cIdx, rnd)
        IN  /\ Becomes(g)
            /\ Spend(g, IF g.result = "true" THEN 1 ELSE 0)
            /\ last' = [op |-> "clickCard", playerIndex |-> 0, cardIndex |-> cIdx,
                        ran |-> "handleCardPlay", result |-> g.result,
                        scheduled |-> g.scheduled,
                        recycled |-> g.recycled, turns |-> g.turns,
                        recycles |-> g.recycles, timer |-> -1]

\* this.ui.deck.addEventListener('click', () => this.handleDrawCard())
ClickDeck ==
    \E k \in Random(Undefined) :
        LET g == HandleDrawCard(Game, k)
        IN  /\ Becomes(g)
            /\ Spend(g, 0)
            /\ last' = [op |-> "clickDeck", playerIndex |-> currentPlayerIndex,
                        cardIndex |-> -1,
                        ran |-> IF currentPlayerIndex = 0 THEN "executeDraw" ELSE "none",
                        result |-> g.result, scheduled |-> g.scheduled,
                        recycled |-> g.recycled, turns |-> g.turns,
                        recycles |-> g.recycles, timer |-> -1]

\* a pending setTimeout fires: playAiTurn(); seat is the seat that was
\* current when the timer was set
TimerFires ==
    \E seat \in Seats :
      \E rnd \in Random(HandAt(hands[currentPlayerIndex],
                    ValidCardIndex(hands[currentPlayerIndex], GetTopCard(discardPile)))) :
        /\ timers[seat] > 0
        /\ LET fired == [Game EXCEPT !.timers[seat] = @ - 1]
               g == PlayAiTurn(fired, rnd)
               idx == ValidCardIndex(hands[currentPlayerIndex], GetTopCard(discardPile))
           IN  /\ Becomes(g)
               /\ Spend(g, 0)
               /\ last' = [op |-> "playAiTurn", playerIndex |-> currentPlayerIndex,
                           cardIndex |-> IF gameOver THEN -1 ELSE idx,
                           ran |-> IF gameOver \/ g.result = "throw" THEN "none"
                                   ELSE IF idx # -1 THEN "handleCardPlay"
                                   ELSE "executeDraw",
                           result |-> g.result, scheduled |-> g.scheduled,
                           recycled |-> g.recycled, turns |-> g.turns,
                           recycles |-> g.recycles, timer |-> seat]

Next == ClickCard \/ ClickDeck \/ TimerFires

\* the page: the events a browser delivers to the handlers the script installs
Spec == Init /\ [][Next]_vars

\* a pending setTimeout callback can run: ENABLED <<TimerFires>>_vars, since a
\* timer that fires always changes timers
TimersCanFire ==
    /\ budget.ops > 0
    /\ \E seat \in Seats : timers[seat] > 0

\* weak fairness of TimerFires, WF_vars(TimerFires), with its ENABLED written
\* out as TimersCanFire: the browser's event loop runs a pending setTimeout
\* callback once its delay has passed
TimerFairness == []<>(~TimersCanFire) \/ []<><<TimerFires>>_vars

\* the page with timers that fire
SpecFair == Init /\ [][Next]_vars /\ TimerFairness

\* game.handleCardPlay(playerIndex, cardIndex) called with an index outside
\* the hand: the index before the first card or the one after the last
CallCardPlay ==
    \E playerIndex \in Seats :
      \E cardIndex \in {-1, Len(hands[playerIndex])} :
        LET g == HandleCardPlay(Game, playerIndex, cardIndex, 0)
        IN  /\ Becomes(g)
            /\ Spend(g, 0)
            /\ last' = [op |-> "call", playerIndex |-> playerIndex,
                        cardIndex |-> cardIndex, ran |-> "handleCardPlay",
                        result |-> g.result, scheduled |-> g.scheduled,
                        recycled |-> g.recycled, turns |-> g.turns,
                        recycles |-> g.recycles, timer |-> -1]

NextApi == ClickCard \/ ClickDeck \/ TimerFires \/ CallCardPlay

\* the page, and callers of handleCardPlay that pass an index outside the hand
SpecApi == Init /\ [][NextApi]_vars

(***************************************************************************)
(* handlePassCardRule on its own: the hands it is called with are 0 to     *)
(* PassLen cards per seat, all different, seat p holding cards of suit     *)
(* SUITS[p + 1], in either direction of play.                              *)
(***************************************************************************)
PassHand(p, n) == [i \in 1..n |-> Card(SUITS[p + 1], VALUES[i])]

InitPass ==
    \E n \in [Seats -> 0..PassLen], d \in {1, -1}, s \in Seats :
        /\ hands = [p \in Seats |-> PassHand(p, n[p])]
        /\ discardPile = <<Card("H", "10")>>
        /\ deck = <<>>
        /\ currentPlayerIndex = s
        /\ direction = d
        /\ gameOver = FALSE
        /\ winner = -1
        /\ timers = [p \in Seats |-> 0]
        /\ last = [op |-> "init", playerIndex |-> -1, cardIndex |-> -1,
                   ran |-> "none", result |-> "undefined", scheduled |-> 0,
                   recycled |-> 0, turns |-> <<>>, recycles |-> <<>>, timer |-> -1]
        /\ budget = [ops |-> PassCalls, plays |-> 0]

\* this.handlePassCardRule()
CallPassCardRule ==
    \E k \in RandomOutcomes :
        LET g == HandlePassCardRule(Game, k)
        IN  /\ Becomes(g)
            /\ Spend(g, 0)
            /\ last' = [op |-> "call", playerIndex |-> -1, cardIndex |-> -1,
                        ran |-> "handlePassCardRule", result |-> g.result,
                        scheduled |-> g.scheduled, recycled |-> g.recycled,
                        turns |-> g.turns, recycles |-> g.recycles, timer |-> -1]

NextPass == CallPassCardRule

SpecPass == InitPass /\ [][NextPass]_vars

(***************************************************************************)
(* isValidMove on its own: any card of the deck on top of the pile, any    *)
(* card of the deck as the candidate, in the hand of seat 0.               *)
(***************************************************************************)
InitValid ==
    \E t \in 1..Len(DeckReset), c \in 1..Len(DeckReset) :
        /\ t # c
        /\ discardPile = <<DeckReset[t]>>
        /\ hands = [p \in Seats |-> IF p = 0 THEN <<DeckReset[c]>> ELSE <<>>]
        /\ deck = <<>>
        /\ currentPlayerIndex = 0
        /\ direction = 1
        /\ gameOver = FALSE
        /\ winner = -1
        /\ timers = [p \in Seats |-> 0]
        /\ last = [op |-> "init", playerIndex |-> -1, cardIndex |-> -1,
                   ran |-> "none", result |-> "undefined", scheduled |-> 0,
                   recycled |-> 0, turns |-> <<>>, recycles |-> <<>>, timer |-> -1]
        /\ budget = [ops |-> 1, plays |-> 0]

\* this.isValidMove(card) for the card of seat 0
CallIsValidMove ==
    /\ budget.ops > 0
    /\ budget' = [ops |-> 0, plays |-> 0]
    /\ last' = [last EXCEPT !.op = "call", !.playerIndex = 0, !.cardIndex = 0,
                            !.ran = "isValidMove",
                            !.result = IF IsValidMove(GetTopCard(discardPile), hands[0][1])
                                       THEN "true" ELSE "false"]
    /\ UNCHANGED <<deck, hands, discardPile, currentPlayerIndex, direction, gameOver,
                   winner, timers>>

NextValid == CallIsValidMove

SpecValid == InitValid /\ [][NextValid]_vars

(***************************************************************************)
(* What a step says about the handler that ran: last' names the handler    *)
(* and its arguments, the unprimed variables are the state it started in.  *)
(***************************************************************************)
\* how often card c occurs in the sequence
Count(c, cards) == Cardinality({i \in 1..Len(cards) : cards[i] = c})

AllCards == deck \o discardPile \o hands[0] \o hands[1] \o hands[2] \o hands[3]

\* the step ran handleCardPlay
RanCardPlay == last'.ran = "handleCardPlay"

\* the step ran executeDraw
RanDraw == last'.ran = "executeDraw"

\* the card handleCardPlay was asked to play
AskedCard == HandAt(hands[last'.playerIndex], last'.cardIndex)

\* the step ran handleCardPlay on a card of the hand
InRange == last'.cardIndex >= 0 /\ last'.cardIndex < Len(hands[last'.playerIndex])

\* the step ran handleCardPlay, during the game, on a card of the hand that
\* fits on the top card
ValidPlay ==
    /\ RanCardPlay
    /\ ~gameOver
    /\ InRange
    /\ IsValidMove(GetTopCard(discardPile), AskedCard)

\* the acting seat keeps at least one card
NotLastCard == Len(hands[last'.playerIndex]) > 1

\* the acting seat is the current seat
ByCurrentSeat == last'.playerIndex = currentPlayerIndex

\* (s + n * d) mod 4 for the current seat s and direction d
SeatAhead(n) == (currentPlayerIndex + n * direction + 8) % 4

(***************************************************************************)
(* C1  Card conservation: in every reachable state the deck, the discard   *)
(* pile and the four hands together hold exactly the 54 cards of           *)
(* Deck.reset(), each as often as reset() creates it.                      *)
(***************************************************************************)
C1_CardConservation ==
    /\ Len(AllCards) = Len(DeckReset)
    /\ \A i \in 1..Len(DeckReset) : Count(DeckReset[i], AllCards) = Count(DeckReset[i], DeckReset)

\* a play whose forced draw ran the deck out and recycled the discard pile
C1_RecycledDuringForcedDraw ==
    /\ last.ran = "handleCardPlay"
    /\ last.recycled > 0
    /\ Len(discardPile) = 1

(***************************************************************************)
(* C2  A play request by a seat that is not the current seat fails and     *)
(* changes no hand, nor the discard pile, the current seat, the direction  *)
(* or gameOver.                                                            *)
(***************************************************************************)
C2_OutOfTurnPlayFails ==
    [][(RanCardPlay /\ ~ByCurrentSeat)
          => /\ last'.result # "true"
             /\ UNCHANGED <<hands, discardPile, currentPlayerIndex, direction, gameOver>>]_vars

(***************************************************************************)
(* C3  Once gameOver is true no card click, deck click or deferred AI turn *)
(* changes the deck, a hand, the discard pile, the current seat or the     *)
(* direction.                                                              *)
(***************************************************************************)
C3_FrozenAfterGameOver ==
    [][gameOver => UNCHANGED <<deck, hands, discardPile, currentPlayerIndex, direction>>]_vars

(***************************************************************************)
(* C4  handleCardPlay on a card of the hand that does not fit on the top   *)
(* card returns false (undefined once the game is over), changes no field  *)
(* of the controller and sets no timer; and a play that succeeds put on    *)
(* the pile the card asked for, which fitted on the top card before it.    *)
(***************************************************************************)
C4_IllegalCardRejected ==
    [][/\ (RanCardPlay /\ InRange /\ ~IsValidMove(GetTopCard(discardPile), AskedCard))
            => /\ last'.result = IF gameOver THEN "undefined" ELSE "false"
               /\ last'.scheduled = 0
               /\ UNCHANGED <<deck, hands, discardPile, currentPlayerIndex, direction,
                              gameOver, timers>>
       /\ (RanCardPlay /\ last'.result = "true")
            => /\ InRange
               /\ IsValidMove(GetTopCard(discardPile), AskedCard)
               /\ GetTopCard(discardPile') = AskedCard]_vars

\* the human clicked a card that does not fit, during the game
C4_RejectedClick ==
    /\ last.op = "clickCard"
    /\ last.result = "false"
    /\ ~IsValidMove(GetTopCard(discardPile), HandAt(hands[0], last.cardIndex))

(***************************************************************************)
(* C5  handleCardPlay with an index outside the acting seat's hand fails   *)
(* and removes nothing from a hand and pushes nothing onto the discard     *)
(* pile, whatever the top card is.                                         *)
(***************************************************************************)
C5_OutOfRangeFails ==
    [][(RanCardPlay /\ ~InRange)
          => /\ last'.result # "true"
             /\ UNCHANGED <<hands, discardPile>>]_vars

(***************************************************************************)
(* C6  A valid play of the acting seat's last card ends the game with that *)
(* seat as the winner and does nothing else: the card moves from the hand  *)
(* to the discard pile, and the deck, the other hands, the current seat    *)
(* and the direction stay as they are and no timer is set.                 *)
(***************************************************************************)
C6_WinningCardHasNoEffect ==
    [][(ValidPlay /\ ~NotLastCard)
          => /\ gameOver'
             /\ winner' = last'.playerIndex
             /\ last'.result = "true"
             /\ hands' = [hands EXCEPT ![last'.playerIndex] = <<>>]
             /\ discardPile' = Append(discardPile, AskedCard)
             /\ last'.scheduled = 0
             /\ \A p \in Seats : timers'[p] <= timers[p]
             /\ UNCHANGED <<deck, currentPlayerIndex, direction>>]_vars

\* a seat won by playing a 2 as its last card
C6_WonWithATwo ==
    /\ gameOver
    /\ last.ran = "handleCardPlay"
    /\ winner = last.playerIndex
    /\ hands[winner] = <<>>
    /\ GetTopCard(discardPile).value = "2"

(***************************************************************************)
(* C7  When the current seat s plays a valid 2 (Joker) that is not its     *)
(* last card, the hand of the next seat in the direction of play grows by  *)
(* exactly 2 (5) cards and no other hand grows.                            *)
(***************************************************************************)
C7_ForcedDrawIsExact ==
    [][(ValidPlay /\ NotLastCard /\ ByCurrentSeat /\ AskedCard.value \in {"2", "X"})
          => /\ Len(hands'[SeatAhead(1)]) =
                    Len(hands[SeatAhead(1)]) + (IF AskedCard.value = "2" THEN 2 ELSE 5)
             /\ \A p \in Seats \ {SeatAhead(1)} : Len(hands'[p]) <= Len(hands[p])]_vars

(***************************************************************************)
(* C8  A draw by the current seat during the game adds exactly one card to *)
(* that seat's hand and advances the turn, or reports that the deck is     *)
(* exhausted: it never passes the turn with the hand as it was.            *)
(***************************************************************************)
C8_DrawAddsACardOrReports ==
    [][(RanDraw /\ ~gameOver)
          => \/ /\ Len(hands'[last'.playerIndex]) = Len(hands[last'.playerIndex]) + 1
                /\ currentPlayerIndex' = SeatAhead(1)
             \/ last'.result = "throw"]_vars

(***************************************************************************)
(* C9  When the current seat s plays a valid 8 that is not its last card,  *)
(* with direction d, the next current seat is (s + 2d) mod 4 and the game  *)
(* is not over.                                                            *)
(***************************************************************************)
C9_EightSkipsOneSeat ==
    [][(ValidPlay /\ NotLastCard /\ ByCurrentSeat /\ AskedCard.value = "8")
          => /\ currentPlayerIndex' = SeatAhead(2)
             /\ direction' = direction
             /\ ~gameOver']_vars

\* an AI seat has just played an 8 on its turn
C9_AiPlayedAnEight ==
    /\ last.op = "playAiTurn"
    /\ last.ran = "handleCardPlay"
    /\ last.result = "true"
    /\ ~gameOver
    /\ GetTopCard(discardPile).value = "8"

(***************************************************************************)
(* C10  After a valid play of a King that is not the seat's last card the  *)
(* current seat and the direction are what they were, and exactly when the *)
(* acting seat is not the human seat 0 one AI turn is scheduled, for the   *)
(* current seat.                                                           *)
(***************************************************************************)
C10_KingPlaysAgain ==
    [][(ValidPlay /\ NotLastCard /\ AskedCard.value = "K")
          => /\ UNCHANGED <<currentPlayerIndex, direction>>
             /\ ~gameOver'
             /\ last'.scheduled = IF last'.playerIndex # 0 THEN 1 ELSE 0
             /\ last'.playerIndex # 0 => timers'[currentPlayerIndex] >= 1]_vars

\* an AI seat has just played a King on its turn and is to play again
C10_AiPlayedAKing ==
    /\ last.op = "playAiTurn"
    /\ last.ran = "handleCardPlay"
    /\ last.result = "true"
    /\ last.scheduled = 1
    /\ ~gameOver
    /\ GetTopCard(discardPile).value = "K"
    /\ timers[currentPlayerIndex] >= 1

(***************************************************************************)
(* C11  In every reachable state currentPlayerIndex is in 0..3 and         *)
(* direction is 1 or -1, and every nextTurn that ran from seat s with      *)
(* direction d while the game was not over left (s + d) mod 4 as the       *)
(* current seat.                                                           *)
(***************************************************************************)
C11_TurnPointer ==
    /\ currentPlayerIndex \in 0..3
    /\ direction \in {1, -1}
    /\ \A i \in 1..Len(last.turns) :
          /\ last.turns[i].from \in 0..3
          /\ last.turns[i].direction \in {1, -1}
          /\ last.turns[i].to = (last.turns[i].from + last.turns[i].direction + 4) % 4

\* nextTurn has just run from seat 0 with direction -1 and went to seat 3
C11_WrappedBackwards ==
    \E i \in 1..Len(last.turns) :
        /\ last.turns[i].from = 0
        /\ last.turns[i].direction = -1
        /\ last.turns[i].to = 3

\* the hand without its i-th card (from 1); the whole hand for i = 0
Without(hand, i) ==
    IF i = 0 THEN hand ELSE SubSeq(hand, 1, i - 1) \o SubSeq(hand, i + 1, Len(hand))

\* the i-th card of the hand as the cards a seat gives; none for i = 0
Given(hand, i) == IF i = 0 THEN <<>> ELSE <<hand[i]>>

\* the cards a seat can give: one of its cards, or none (0) from an empty hand
Giveable(hand) == IF Len(hand) = 0 THEN {0} ELSE 1..Len(hand)

TotalInHands(h) == Len(h[0]) + Len(h[1]) + Len(h[2]) + Len(h[3])

(***************************************************************************)
(* C12  The pass of a 10, with direction d: every seat i with a card gives *)
(* up exactly one card of its hand, which seat (i + d) mod 4 receives; a   *)
(* seat without cards gives nothing and still receives from the seat       *)
(* before it; the hands hold as many cards after the pass as before it,    *)
(* and the pass moves neither the current seat nor the direction.          *)
(***************************************************************************)
C12_PassMovesOneCardEach ==
    [][last'.ran = "handlePassCardRule"
          => /\ \E i0 \in Giveable(hands[0]), i1 \in Giveable(hands[1]),
                    i2 \in Giveable(hands[2]), i3 \in Giveable(hands[3]) :
                    LET gives == <<i0, i1, i2, i3>>
                    IN  \A p \in Seats :
                          LET q == (p + direction + 4) % 4
                          IN  hands'[q] = Without(hands[q], gives[q + 1])
                                             \o Given(hands[p], gives[p + 1])
             /\ TotalInHands(hands') = TotalInHands(hands)
             /\ UNCHANGED <<currentPlayerIndex, direction, deck, discardPile,
                            gameOver, timers>>]_vars

\* after one pass a seat that had no card holds exactly the card of the seat
\* before it, while another seat gave its only card and received none
C12_EmptyHandReceived ==
    /\ last.ran = "handlePassCardRule"
    /\ budget.ops = PassCalls - 1
    /\ \E p \in Seats :
          /\ Len(hands[p]) = 1
          /\ hands[p][1].suit # SUITS[p + 1]
          /\ \A q \in Seats : \A i \in 1..Len(hands[q]) : hands[q][i].suit # SUITS[p + 1]
    /\ \E p \in Seats : Len(hands[p]) = 0

\* the two sequences hold the same cards, each as often
SameCards(a, b) ==
    /\ Len(a) = Len(b)
    /\ \A i \in 1..Len(a) : Count(a[i], a) = Count(a[i], b)

(***************************************************************************)
(* C13  Every recycleDeck that ran on a discard pile of 2 or more cards    *)
(* left a discard pile of exactly one card, the top card it found, and a   *)
(* deck that holds its former cards and all the other cards of the pile;   *)
(* every recycleDeck that ran on a pile of 0 or 1 cards changed nothing.   *)
(***************************************************************************)
C13_RecycleKeepsTop ==
    \A i \in 1..Len(last.recycles) :
        LET r == last.recycles[i]
            n == Len(r.discardPile)
        IN  IF n >= 2
            THEN /\ r.discardPileAfter = <<r.discardPile[n]>>
                 /\ SameCards(r.deckAfter, r.deck \o SubSeq(r.discardPile, 1, n - 1))
            ELSE /\ r.discardPileAfter = r.discardPile
                 /\ r.deckAfter = r.deck

\* one handler ran recycleDeck on a pile of 2 or more cards and, the deck
\* empty again, on the pile of one card that was left
C13_RecycledThenNothingLeft ==
    \E i, j \in 1..Len(last.recycles) :
        /\ Len(last.recycles[i].discardPile) >= 2
        /\ Len(last.recycles[j].discardPile) = 1
        /\ discardPile = last.recycles[j].discardPileAfter

(***************************************************************************)
(* C14  In every reachable state the discard pile holds at least one card  *)
(* and its top card is a card of the 54-card deck, after every play, draw, *)
(* forced draw and recycle.                                                *)
(***************************************************************************)
C14_DiscardNeverEmpty ==
    /\ Len(discardPile) >= 1
    /\ \E i \in 1..Len(DeckReset) : GetTopCard(discardPile) = DeckReset[i]
    /\ \A i \in 1..Len(last.recycles) : Len(last.recycles[i].discardPileAfter) >= 1

\* a draw has just recycled the pile and left its top card as the only card
C14_DrewAfterRecycle ==
    /\ last.ran = "executeDraw"
    /\ last.recycled > 0
    /\ Len(discardPile) = 1
    /\ discardPile[1] # Undefined

\* the card is a Joker or a Jack
JokerOrJack(card) == card.value = "X" \/ card.value = "J"

(***************************************************************************)
(* C15  For every top card and every candidate card of the 54 cards,       *)
(* isValidMove returns true exactly when the top card is a Joker or Jack,  *)
(* or the candidate is a Joker or Jack, or the two have the same rank, or  *)
(* the two have the same suit; and evaluating it changes no game state.    *)
(***************************************************************************)
C15_ValidMoveIsTheDisjunction ==
    [][last'.ran = "isValidMove"
          => /\ (last'.result = "true") <=>
                    \/ JokerOrJack(discardPile[1])
                    \/ JokerOrJack(hands[0][1])
                    \/ hands[0][1].value = discardPile[1].value
                    \/ hands[0][1].suit = discardPile[1].suit
             /\ last'.result \in {"true", "false"}
             /\ UNCHANGED <<deck, hands, discardPile, currentPlayerIndex, direction,
                            gameOver, winner, timers>>]_vars

\* isValidMove has just accepted a card that fits the top card by suit only
C15_AcceptedBySuitOnly ==
    /\ last.ran = "isValidMove"
    /\ last.result = "true"
    /\ ~JokerOrJack(discardPile[1])
    /\ ~JokerOrJack(hands[0][1])
    /\ hands[0][1].value # discardPile[1].value
    /\ hands[0][1].suit = discardPile[1].suit

\* deferred playAiTurn calls that are pending
Pending == timers[0] + timers[1] + timers[2] + timers[3]

(***************************************************************************)
(* C16  A deferred AI turn that fires while the game is over, or while the *)
(* current seat is not the seat that was current when it was scheduled, or *)
(* while the current seat is the human seat 0, plays no card and draws no  *)
(* card.                                                                   *)
(***************************************************************************)
C16_TimerActsOnlyForItsSeat ==
    [][(/\ last'.op = "playAiTurn"
        /\ (gameOver \/ last'.timer # currentPlayerIndex \/ currentPlayerIndex = 0))
          => /\ last'.ran = "none"
             /\ UNCHANGED <<deck, hands, discardPile, currentPlayerIndex, direction>>]_vars

(***************************************************************************)
(* C17  At no time are two deferred AI turns pending at once.              *)
(***************************************************************************)
C17_OneDeferredTurnAtATime == Pending <= 1

(***************************************************************************)
(* C18  When the current seat s plays a valid Ace that is not its last     *)
(* card, with direction d, the direction becomes -d and the current seat   *)
(* becomes (s - d) mod 4, and no hand but the actor's changes.             *)
(***************************************************************************)
C18_AceReverses ==
    [][(ValidPlay /\ NotLastCard /\ ByCurrentSeat /\ AskedCard.value = "A")
          => /\ direction' = -direction
             /\ currentPlayerIndex' = SeatAhead(-1)
             /\ ~gameOver'
             /\ \A p \in Seats \ {last'.playerIndex} : hands'[p] = hands[p]
             /\ hands'[last'.playerIndex] = Without(hands[last'.playerIndex], last'.cardIndex + 1)]_vars

\* an AI seat has just played an Ace on its turn, and play runs backwards
C18_AiPlayedAnAce ==
    /\ last.op = "playAiTurn"
    /\ last.ran = "handleCardPlay"
    /\ last.result = "true"
    /\ ~gameOver
    /\ GetTopCard(discardPile).value = "A"
    /\ direction = -1
    /\ currentPlayerIndex = (last.playerIndex + 3) % 4

(***************************************************************************)
(* C19  While gameOver is false every hand holds a card; the win check of  *)
(* nextTurn never fires; and a winner is only declared by a handleCardPlay *)
(* in which the acting seat played its last card, that seat being the      *)
(* winner.                                                                 *)
(***************************************************************************)
C19_WinnerPlayedItsLastCard ==
    /\ [](~gameOver => (winner = -1 /\ \A p \in Seats : Len(hands[p]) > 0))
    /\ [](\A i \in 1..Len(last.turns) : ~last.turns[i].won)
    /\ [][(winner' # winner \/ gameOver' # gameOver)
             => /\ RanCardPlay
                /\ ~gameOver /\ gameOver'
                /\ winner' = last'.playerIndex
                /\ Len(hands[last'.playerIndex]) = 1
                /\ hands'[last'.playerIndex] = <<>>]_vars

\* the human has won with a card clicked while an AI seat was the current
\* seat, every other hand still holding cards
C19_HumanWonOutOfTurn ==
    /\ gameOver
    /\ winner = 0
    /\ last.op = "clickCard"
    /\ currentPlayerIndex # 0
    /\ hands[0] = <<>>
    /\ \A p \in 1..3 : Len(hands[p]) > 0

(***************************************************************************)
(* C20  In every reachable state in which the game is not over and the     *)
(* current seat is an AI seat, a deferred playAiTurn is pending; and with  *)
(* timers that fire, whenever an AI seat s is the current seat, eventually *)
(* the current seat is another seat or the game is over (or the explored   *)
(* run has ended).                                                         *)
(***************************************************************************)
C20_AiSeatNeverStalls ==
    /\ []((~gameOver /\ currentPlayerIndex # 0) => Pending >= 1)
    /\ \A s \in 1..3 :
          (~gameOver /\ currentPlayerIndex = s /\ budget.ops > 0)
              ~> (gameOver \/ currentPlayerIndex # s \/ budget.ops = 0)

\* the timers alone have brought the turn to the human: the timer set for the
\* last AI seat has fired for that seat, and none is pending
C20_TurnReachedTheHuman ==
    /\ last.op = "playAiTurn"
    /\ last.timer = last.playerIndex
    /\ last.playerIndex # 0
    /\ ~gameOver
    /\ currentPlayerIndex = 0
    /\ Pending = 0
====
